---- MODULE Spec2Model ----
(***************************************************************************)
(* A model of package lazymigrate (src/lazymigrate.go).                    *)
(*                                                                         *)
(* Strings are sequences of one-character strings.  Schema.Versions is     *)
(* strings.Split on "\n"+magic+"\n", computed as Go computes it (leftmost, *)
(* non-overlapping matches).  Schema.Migrate is a state machine with one   *)
(* action per database call it makes; the database is the collaborator     *)
(* behind database/sql: a committed state (user_version and the log of     *)
(* committed SQL), a transaction-local view, and a transaction handle      *)
(* that Commit and Rollback mark done (a Rollback of a done handle is      *)
(* ErrTxDone and changes nothing).  Every database call may fail; a        *)
(* cancelled ctx makes the calls that take ctx fail.                       *)
(***************************************************************************)
EXTENDS Integers, Sequences, FiniteSets, TLC

VARIABLES
    user_version,   \* the committed PRAGMA user_version of the database
    dbApplied,      \* the committed SQL, in order: records [index, sql]
    txState,        \* "none" | "open" | "committed" | "commitFailed" | "rolledback"
    txVersion,      \* user_version as seen inside the open transaction
    txApplied,      \* the SQL log as seen inside the open transaction
    pc,             \* position of the running call
    s,              \* the receiver: [schema, magic]
    v,              \* Migrate's local v
    versions,       \* Migrate's local versions
    i,              \* Migrate's loop index (0-based, as in the source)
    err,            \* the value Migrate returns
    ctxDone,        \* the caller's ctx has been cancelled
    calls,          \* the database calls of the running call: [op, index, ok]
    pre,            \* the committed state when the running call started
    prev,           \* the previous call: its receiver and how it ended
    nCalls,         \* number of Migrate calls started
    parts,          \* the strings a schema was joined from (split runs only)
    callers,        \* concurrent runs only: each caller's locals and transaction
    writer          \* concurrent runs only: the caller whose transaction may write

vars == <<user_version, dbApplied, txState, txVersion, txApplied, pc, s, v,
          versions, i, err, ctxDone, calls, pre, prev, nCalls, parts, callers,
          writer>>

(***************************************************************************)
(* Bounds.                                                                 *)
(***************************************************************************)
MaxCalls == 3
MaxVersions == 2
MaxCounter == 3
MaxParts == 3
MaxPartLen == 2
MaxMagicLen == 2

(***************************************************************************)
(* Strings.                                                                *)
(***************************************************************************)
NL == "\n"

\* The default delimiter, abbreviated: a run of characters with no newline.
Delimiter == <<"-">>

\* All sequences over S of length at most n.
SeqsUpTo(S, n) == UNION {[1..k -> S] : k \in 0..n}

\* s[from:] of Go, from 0-based.
Drop(str, from) == SubSeq(str, from + 1, Len(str))

\* s[:to] of Go, to 0-based and exclusive.
Take(str, to) == SubSeq(str, 1, to)

HasPrefix(str, prefix) ==
    /\ Len(prefix) <= Len(str)
    /\ Take(str, Len(prefix)) = prefix

\* strings.Index: the 0-based position of the first occurrence, or -1.
Index(str, sep) ==
    LET hits == {k \in 0..Len(str) : HasPrefix(Drop(str, k), sep)}
    IN  IF hits = {} THEN -1
        ELSE CHOOSE k \in hits : \A h \in hits : k <= h

Contains(str, sub) == Index(str, sub) >= 0

\* strings.Split for a non-empty separator (genSplit with n < 0): cut at the
\* first occurrence, continue behind it, and end with what is left.
RECURSIVE Split(_, _)
Split(str, sep) ==
    LET m == Index(str, sep)
    IN  IF m < 0 THEN <<str>>
        ELSE <<Take(str, m)>> \o Split(Drop(str, m + Len(sep)), sep)

\* strings.Join.
RECURSIVE Join(_, _)
Join(elems, sep) ==
    IF Len(elems) = 0 THEN <<>>
    ELSE IF Len(elems) = 1 THEN elems[1]
    ELSE elems[1] \o sep \o Join(Tail(elems), sep)

\* "\n" + magic + "\n"
Separator(magic) == <<NL>> \o magic \o <<NL>>

NewSchemaWithMagic(schema, magic) == [schema |-> schema, magic |-> magic]

NewSchema(schema) == NewSchemaWithMagic(schema, Delimiter)

\* A plausible slip: empty versions dropped from the result.
VersionsSkipEmpty(sch) ==
    SelectSeq(Split(sch.schema, Separator(sch.magic)), LAMBDA x : x # <<>>)

\* A plausible slip: the leading newline left out of the separator.
VersionsNoLeadingNewline(sch) == Split(sch.schema, sch.magic \o <<NL>>)

Versions(sch) == Split(sch.schema, Separator(sch.magic))

(***************************************************************************)
(* The inputs of the model.                                                *)
(***************************************************************************)
\* SQL bodies of the migration runs, and the schema strings built from them.
SqlBodies == {<<"x">>, <<"y">>}

Sources == {Join(p, Separator(Delimiter)) : p \in SeqsUpTo(SqlBodies, MaxVersions)}

\* What PRAGMA user_version may hold when a run starts (a signed integer that
\* anything with access to the file can set).
StoredCounters == (0 - 1)..MaxCounter

\* Characters and strings of the split runs.
SplitChars == {NL, "a"}

SplitStrings == SeqsUpTo(SplitChars, MaxPartLen)

SplitMagics == SeqsUpTo(SplitChars, MaxMagicLen)

(***************************************************************************)
(* Values.                                                                 *)
(***************************************************************************)
NoIndex == 0 - 1

Nil == [stage |-> "nil", index |-> NoIndex]

\* fmt.Errorf("cannot begin transaction: %w", err)
BeginError == [stage |-> "begin", index |-> NoIndex]

\* fmt.Errorf("cannot get PRAGMA user_version: %w", err)
QueryError == [stage |-> "query", index |-> NoIndex]

\* A plausible slip: the index reported from 1.
ApplyErrorFromFirst(k) == [stage |-> "apply", index |-> k + 1]

\* fmt.Errorf("cannot apply migration %d (from 0th): %w", i, err)
ApplyError(k) == [stage |-> "apply", index |-> k]

\* fmt.Errorf("cannot set PRAGMA user_version: %w", err)
SetVersionError == [stage |-> "setVersion", index |-> NoIndex]

\* fmt.Errorf("cannot commit new migrations: %w", err)
CommitError == [stage |-> "commit", index |-> NoIndex]

\* versions[i] with i out of range: a run-time panic, not a returned error.
IndexPanic == [stage |-> "panic", index |-> NoIndex]

Entry(op, index, ok) == [op |-> op, index |-> index, ok |-> ok]

Statement(index, sql) == [index |-> index, sql |-> sql]

\* What a statement that failed half way may leave inside the transaction.
Partial == <<"partial">>

NoSchema == NewSchemaWithMagic(<<>>, <<>>)

Committed == [user_version |-> user_version, applied |-> dbApplied]

\* A plausible slip: the index of the last version instead of the count.
NewUserVersionLastIndex == Len(versions) - 1

\* A plausible slip: one more than the count.
NewUserVersionNext == Len(versions) + 1

\* fmt.Sprintln("PRAGMA user_version =", len(versions))
NewUserVersion == Len(versions)

\* A plausible slip: the loop restarted from the first version.
LoopStartFirst(from) == 0

\* for i := v; ...
LoopStart(from) == from

(***************************************************************************)
(* Migrate, one action per step.                                           *)
(***************************************************************************)
InCall == pc \in {"begin", "query", "compare", "exec", "setVersion", "commit", "deferred"}

\* Migrate(ctx, db, schema) = NewSchema(schema).Migrate(ctx, db): a new call.
Migrate(schema) ==
    /\ pc \in {"idle", "returned", "panicked"}
    /\ nCalls < MaxCalls
    /\ s' = NewSchema(schema)
    /\ pc' = "begin"
    /\ nCalls' = nCalls + 1
    /\ pre' = Committed
    /\ prev' = [s |-> s, err |-> err, pc |-> pc]
    /\ calls' = <<>>
    /\ err' = Nil
    /\ v' = 0
    /\ i' = 0
    /\ versions' = <<>>
    /\ ctxDone' = FALSE
    /\ txState' = "none"
    /\ txVersion' = 0
    /\ txApplied' = <<>>
    /\ UNCHANGED <<user_version, dbApplied, parts, callers, writer>>

\* The caller cancels ctx while the call runs.
Cancel ==
    /\ InCall
    /\ ~ctxDone
    /\ ctxDone' = TRUE
    /\ UNCHANGED <<user_version, dbApplied, txState, txVersion, txApplied, pc, s,
                   v, versions, i, err, calls, pre, prev, nCalls, parts, callers, writer>>

\* A plausible slip: the defer placed before the test of Begin's error.
BeginDeferBeforeCheck(ok) ==
    /\ pc = "begin"
    /\ calls' = Append(calls, Entry("Begin", NoIndex, ok))
    /\ IF ok
       THEN /\ txState' = "open"
            /\ txVersion' = user_version
            /\ txApplied' = dbApplied
            /\ pc' = "query"
            /\ UNCHANGED err
       ELSE /\ err' = BeginError
            /\ pc' = "deferred"
            /\ UNCHANGED <<txState, txVersion, txApplied>>
    /\ UNCHANGED <<user_version, dbApplied, s, v, versions, i, ctxDone, pre, prev,
                   nCalls, parts, callers, writer>>

\* tx, err := db.Begin(); on success, defer tx.Rollback().
Begin(ok) ==
    /\ pc = "begin"
    /\ calls' = Append(calls, Entry("Begin", NoIndex, ok))
    /\ IF ok
       THEN /\ txState' = "open"
            /\ txVersion' = user_version
            /\ txApplied' = dbApplied
            /\ pc' = "query"
            /\ UNCHANGED err
       ELSE /\ err' = BeginError
            /\ pc' = "returned"
            /\ UNCHANGED <<txState, txVersion, txApplied>>
    /\ UNCHANGED <<user_version, dbApplied, s, v, versions, i, ctxDone, pre, prev,
                   nCalls, parts, callers, writer>>

\* tx.QueryRowContext(ctx, "PRAGMA user_version").Scan(&v)
Query(ok) ==
    /\ pc = "query"
    /\ ok => ~ctxDone
    /\ calls' = Append(calls, Entry("Query", NoIndex, ok))
    /\ IF ok
       THEN /\ v' = txVersion
            /\ pc' = "compare"
            /\ UNCHANGED err
       ELSE /\ err' = QueryError
            /\ pc' = "deferred"
            /\ UNCHANGED v
    /\ UNCHANGED <<user_version, dbApplied, txState, txVersion, txApplied, s,
                   versions, i, ctxDone, pre, prev, nCalls, parts, callers, writer>>

\* A plausible slip: > for >=.
CompareStrict ==
    /\ pc = "compare"
    /\ versions' = Versions(s)
    /\ IF v > Len(versions')
       THEN /\ pc' = "deferred"
            /\ UNCHANGED i
       ELSE /\ i' = LoopStart(v)
            /\ pc' = IF LoopStart(v) < Len(versions') THEN "exec" ELSE "setVersion"
    /\ UNCHANGED <<user_version, dbApplied, txState, txVersion, txApplied, s, v,
                   err, ctxDone, calls, pre, prev, nCalls, parts, callers, writer>>

\* A plausible slip: no early return for a database that is already up to date.
CompareNoReturn ==
    /\ pc = "compare"
    /\ versions' = Versions(s)
    /\ i' = LoopStart(v)
    /\ pc' = IF LoopStart(v) < Len(versions') THEN "exec" ELSE "setVersion"
    /\ UNCHANGED <<user_version, dbApplied, txState, txVersion, txApplied, s, v,
                   err, ctxDone, calls, pre, prev, nCalls, parts, callers, writer>>

\* versions := s.Versions(); if v >= len(versions) { return nil }; i := v.
\* After it v < len(versions), so the loop's first test succeeds.
Compare ==
    /\ pc = "compare"
    /\ versions' = Versions(s)
    /\ IF v >= Len(versions')
       THEN /\ pc' = "deferred"
            /\ UNCHANGED i
       ELSE /\ i' = LoopStart(v)
            /\ pc' = "exec"
    /\ UNCHANGED <<user_version, dbApplied, txState, txVersion, txApplied, s, v,
                   err, ctxDone, calls, pre, prev, nCalls, parts, callers, writer>>

\* versions[i] with a negative i panics; the deferred Rollback still runs.
OutOfRange ==
    /\ pc = "exec"
    /\ i < 0
    /\ err' = IndexPanic
    /\ pc' = "deferred"
    /\ UNCHANGED <<user_version, dbApplied, txState, txVersion, txApplied, s, v,
                   versions, i, ctxDone, calls, pre, prev, nCalls, parts, callers, writer>>

\* A plausible slip: db.ExecContext for tx.ExecContext, outside the transaction.
ExecOnDB(ok, partial) ==
    /\ pc = "exec"
    /\ i >= 0
    /\ ok => ~ctxDone
    /\ calls' = Append(calls, Entry("Exec", i, ok))
    /\ IF ok
       THEN /\ dbApplied' = Append(dbApplied, Statement(i, versions[i + 1]))
            /\ i' = i + 1
            /\ pc' = IF i + 1 < Len(versions) THEN "exec" ELSE "setVersion"
            /\ UNCHANGED err
       ELSE /\ dbApplied' = IF partial THEN Append(dbApplied, Statement(i, Partial))
                            ELSE dbApplied
            /\ err' = ApplyError(i)
            /\ pc' = "deferred"
            /\ UNCHANGED i
    /\ txApplied' = dbApplied'
    /\ UNCHANGED <<user_version, txState, txVersion, s, v, versions,
                   ctxDone, pre, prev, nCalls, parts, callers, writer>>

\* _, err := tx.ExecContext(ctx, versions[i]), then i++ and the loop's test.
Exec(ok, partial) ==
    /\ pc = "exec"
    /\ i >= 0
    /\ ok => ~ctxDone
    /\ calls' = Append(calls, Entry("Exec", i, ok))
    /\ IF ok
       THEN /\ txApplied' = Append(txApplied, Statement(i, versions[i + 1]))
            /\ i' = i + 1
            /\ pc' = IF i + 1 < Len(versions) THEN "exec" ELSE "setVersion"
            /\ UNCHANGED err
       ELSE /\ txApplied' = IF partial THEN Append(txApplied, Statement(i, Partial))
                            ELSE txApplied
            /\ err' = ApplyError(i)
            /\ pc' = "deferred"
            /\ UNCHANGED i
    /\ UNCHANGED <<user_version, dbApplied, txState, txVersion, s, v, versions,
                   ctxDone, pre, prev, nCalls, parts, callers, writer>>

\* A plausible slip: the error of the write dropped.
SetVersionIgnoreError(ok) ==
    /\ pc = "setVersion"
    /\ ok => ~ctxDone
    /\ calls' = Append(calls, Entry("SetVersion", NoIndex, ok))
    /\ txVersion' = IF ok THEN NewUserVersion ELSE txVersion
    /\ pc' = "commit"
    /\ UNCHANGED <<user_version, dbApplied, txState, txApplied, s, v, versions, i,
                   err, ctxDone, pre, prev, nCalls, parts, callers, writer>>

\* tx.ExecContext(ctx, "PRAGMA user_version = <len(versions)>")
SetVersion(ok) ==
    /\ pc = "setVersion"
    /\ ok => ~ctxDone
    /\ calls' = Append(calls, Entry("SetVersion", NoIndex, ok))
    /\ IF ok
       THEN /\ txVersion' = NewUserVersion
            /\ pc' = "commit"
            /\ UNCHANGED err
       ELSE /\ err' = SetVersionError
            /\ pc' = "deferred"
            /\ UNCHANGED txVersion
    /\ UNCHANGED <<user_version, dbApplied, txState, txApplied, s, v, versions, i,
                   ctxDone, pre, prev, nCalls, parts, callers, writer>>

\* tx.Commit(): the handle is done either way; the view becomes the committed
\* state on success and is discarded on failure.
Commit(ok) ==
    /\ pc = "commit"
    /\ calls' = Append(calls, Entry("Commit", NoIndex, ok))
    /\ IF ok
       THEN /\ user_version' = txVersion
            /\ dbApplied' = txApplied
            /\ txState' = "committed"
            /\ UNCHANGED err
       ELSE /\ txState' = "commitFailed"
            /\ err' = CommitError
            /\ UNCHANGED <<user_version, dbApplied>>
    /\ pc' = "deferred"
    /\ UNCHANGED <<txVersion, txApplied, s, v, versions, i, ctxDone, pre, prev,
                   nCalls, parts, callers, writer>>

\* A plausible slip: a rollback on the error paths only, not deferred.
RollbackOnErrorOnly ==
    /\ pc = "deferred"
    /\ IF txState = "open" /\ err # Nil
       THEN /\ txState' = "rolledback"
            /\ txVersion' = 0
            /\ txApplied' = <<>>
            /\ calls' = Append(calls, Entry("Rollback", NoIndex, TRUE))
       ELSE UNCHANGED <<txState, txVersion, txApplied, calls>>
    /\ pc' = IF err = IndexPanic THEN "panicked" ELSE "returned"
    /\ UNCHANGED <<user_version, dbApplied, s, v, versions, i, err, ctxDone, pre,
                   prev, nCalls, parts, callers, writer>>

\* The deferred tx.Rollback(), run on every exit after Begin succeeded; its
\* result is dropped.  On a handle that is done it is ErrTxDone (ok = FALSE).
Rollback ==
    /\ pc = "deferred"
    /\ calls' = Append(calls, Entry("Rollback", NoIndex, txState = "open"))
    /\ IF txState = "open"
       THEN /\ txState' = "rolledback"
            /\ txVersion' = 0
            /\ txApplied' = <<>>
       ELSE UNCHANGED <<txState, txVersion, txApplied>>
    /\ pc' = IF err = IndexPanic THEN "panicked" ELSE "returned"
    /\ UNCHANGED <<user_version, dbApplied, s, v, versions, i, err, ctxDone, pre,
                   prev, nCalls, parts, callers, writer>>

Init ==
    /\ user_version \in StoredCounters
    /\ dbApplied = <<>>
    /\ txState = "none"
    /\ txVersion = 0
    /\ txApplied = <<>>
    /\ pc = "idle"
    /\ s = NoSchema
    /\ v = 0
    /\ versions = <<>>
    /\ i = 0
    /\ err = Nil
    /\ ctxDone = FALSE
    /\ calls = <<>>
    /\ pre = Committed
    /\ prev = [s |-> NoSchema, err |-> Nil, pc |-> "idle"]
    /\ nCalls = 0
    /\ parts = <<>>
    /\ callers = <<>>
    /\ writer = "none"

Next ==
    \/ \E schema \in Sources : Migrate(schema)
    \/ Cancel
    \/ \E ok \in BOOLEAN : Begin(ok)
    \/ \E ok \in BOOLEAN : Query(ok)
    \/ Compare
    \/ OutOfRange
    \/ \E ok, partial \in BOOLEAN : Exec(ok, partial)
    \/ \E ok \in BOOLEAN : SetVersion(ok)
    \/ \E ok \in BOOLEAN : Commit(ok)
    \/ Rollback

Spec == Init /\ [][Next]_vars

(***************************************************************************)
(* Versions on its own: a schema joined from parts, then split.            *)
(***************************************************************************)
SplitInit ==
    /\ parts \in SeqsUpTo(SplitStrings, MaxParts)
    /\ \E magic \in SplitMagics :
          s = NewSchemaWithMagic(Join(parts, Separator(magic)), magic)
    /\ pc = "split"
    /\ versions = <<>>
    /\ user_version = 0
    /\ dbApplied = <<>>
    /\ txState = "none"
    /\ txVersion = 0
    /\ txApplied = <<>>
    /\ v = 0
    /\ i = 0
    /\ err = Nil
    /\ ctxDone = FALSE
    /\ calls = <<>>
    /\ pre = Committed
    /\ prev = [s |-> NoSchema, err |-> Nil, pc |-> "idle"]
    /\ nCalls = 0
    /\ callers = <<>>
    /\ writer = "none"

\* s.Versions()
CallVersions ==
    /\ pc = "split"
    /\ versions' = Versions(s)
    /\ pc' = "splitDone"
    /\ UNCHANGED <<user_version, dbApplied, txState, txVersion, txApplied, s, v,
                   i, err, ctxDone, calls, pre, prev, nCalls, parts, callers, writer>>

SplitNext == CallVersions

SplitSpec == SplitInit /\ [][SplitNext]_vars

(***************************************************************************)
(* What the properties below read off the record of a call.                *)
(***************************************************************************)
Returned == pc = "returned"

Exited == pc \in {"returned", "panicked"}

\* Positions in calls of the steps that failed (the deferred Rollback is no step).
FailedSteps == {k \in 1..Len(calls) : calls[k].op # "Rollback" /\ ~calls[k].ok}

CallsOf(op) == {k \in 1..Len(calls) : calls[k].op = op}

\* The indices of the version bodies executed, in the order of execution.
ExecIndices ==
    LET e == SelectSeq(calls, LAMBDA c : c.op = "Exec")
    IN  [k \in 1..Len(e) |-> e[k].index]

BeginSucceeded == \E k \in CallsOf("Begin") : calls[k].ok

\* The calls that end the transaction: a Commit, or a Rollback that was not
\* answered with ErrTxDone.
TerminalActions ==
    {k \in 1..Len(calls) :
        \/ calls[k].op = "Commit"
        \/ calls[k].op = "Rollback" /\ calls[k].ok}

\* The statements of versions c, c+1, ... of vs (c counted from 0).
PendingFrom(c, vs) ==
    SubSeq([k \in 1..Len(vs) |-> [index |-> k - 1, sql |-> vs[k]]], c + 1, Len(vs))

\* The error that names the stage of a failed step.
StageError(e) ==
    [stage |-> CASE e.op = "Begin" -> "begin"
                 [] e.op = "Query" -> "query"
                 [] e.op = "Exec" -> "apply"
                 [] e.op = "SetVersion" -> "setVersion"
                 [] e.op = "Commit" -> "commit",
     index |-> e.index]

Success == [stage |-> "nil", index |-> 0 - 1]

(***************************************************************************)
(* Migrate: C1 to C7 and C10.                                              *)
(***************************************************************************)
\* C1: a call that returns an error leaves the committed SQL and the committed
\* user_version exactly as they were when it started; at every moment the
\* committed state is either that starting state or the starting state with
\* every pending version applied and user_version = len(versions).
C1_AtomicOnFailure ==
    /\ (Returned /\ err # Success) => Committed = pre
    /\ \/ Committed = pre
       \/ /\ user_version = Len(Versions(s))
          /\ dbApplied = pre.applied \o PendingFrom(pre.user_version, Versions(s))

\* A call failed after it had executed a version body inside the transaction.
C1_Witness ==
    /\ Returned
    /\ err # Success
    /\ \E k \in CallsOf("Exec") : calls[k].ok

\* C2 as stated: after a success, for any starting user_version, user_version
\* is len(versions) and the versions from the starting one on are committed.
C2_Original ==
    (Returned /\ err = Success) =>
        /\ user_version = Len(Versions(s))
        /\ dbApplied = pre.applied \o PendingFrom(pre.user_version, Versions(s))

\* C2, amended: after a success the versions from the starting user_version on
\* are committed, and user_version is len(versions) when the starting value
\* did not exceed it and is the unchanged starting value otherwise.
C2_SuccessPostcondition ==
    (Returned /\ err = Success) =>
        /\ user_version = IF pre.user_version <= Len(Versions(s))
                          THEN Len(Versions(s)) ELSE pre.user_version
        /\ dbApplied = pre.applied \o PendingFrom(pre.user_version, Versions(s))

\* A call resumed from user_version 1 and committed what was pending.
C2_Witness ==
    /\ Returned
    /\ err = Success
    /\ pre.user_version = 1
    /\ Len(dbApplied) > Len(pre.applied)

\* The running call follows a call that succeeded with the same schema.
AfterSuccessSameSchema ==
    /\ nCalls >= 2
    /\ prev.pc = "returned"
    /\ prev.err = Success
    /\ prev.s = s

\* C3: a call that follows a successful call with the same schema executes no
\* version body, writes no user_version and commits nothing, leaves the
\* committed state unchanged, and returns nil unless Begin or the read of
\* user_version itself failed.
C3_Idempotent ==
    AfterSuccessSameSchema =>
        /\ CallsOf("Exec") = {}
        /\ CallsOf("SetVersion") = {}
        /\ CallsOf("Commit") = {}
        /\ Committed = pre
        /\ (Returned /\ FailedSteps = {}) => err = Success
        /\ err.stage \in {"nil", "begin", "query"}

\* The first call migrated and the second, with the same schema, returned nil.
C3_Witness ==
    /\ AfterSuccessSameSchema
    /\ nCalls = 2
    /\ Len(pre.applied) > 0
    /\ Returned
    /\ err = Success

\* C4: a call that starts at user_version c with 0 <= c < n and in which no
\* step fails executes exactly the versions c, c+1, ..., n-1, once each and in
\* this order, and commits user_version = n.
C4_ResumeFromCounter ==
    LET n == Len(Versions(s))
        c == pre.user_version
    IN  (Returned /\ FailedSteps = {} /\ 0 <= c /\ c < n) =>
            /\ ExecIndices = [k \in 1..(n - c) |-> c + k - 1]
            /\ user_version = n

\* A call resumed at version 1 of 2.
C4_Witness ==
    /\ Returned
    /\ FailedSteps = {}
    /\ pre.user_version = 1
    /\ Len(Versions(s)) = 2
    /\ user_version = 2

\* C5: once the execution of version k has failed, the error is the apply
\* error with index k, every other execution of the call was of a smaller
\* index and succeeded, there is no write of user_version and no Commit, the
\* committed state is the starting one, and the call ends with the
\* transaction rolled back; an apply error is returned for no other reason.
C5_ApplyFailure ==
    /\ \A k \in CallsOf("Exec") :
          ~calls[k].ok =>
              /\ err = [stage |-> "apply", index |-> calls[k].index]
              /\ pc \in {"deferred", "returned"}
              /\ \A j \in CallsOf("Exec") \ {k} :
                    j < k /\ calls[j].ok /\ calls[j].index < calls[k].index
              /\ CallsOf("SetVersion") = {}
              /\ CallsOf("Commit") = {}
              /\ Committed = pre
              /\ Returned =>
                    /\ txState = "rolledback"
                    /\ \E j \in CallsOf("Rollback") : j > k /\ calls[j].ok
    /\ err.stage = "apply" => \E k \in CallsOf("Exec") : ~calls[k].ok

\* Version 0 was executed and version 1 failed.
C5_Witness ==
    /\ Returned
    /\ err = [stage |-> "apply", index |-> 1]
    /\ \E k \in CallsOf("Exec") : calls[k].ok /\ calls[k].index = 0
    /\ dbApplied = <<>>

\* C6: a transaction is ended by at most one call; once the call has exited
\* after a successful Begin it was ended by exactly one, a Commit or a
\* Rollback, and is not open; a transaction that committed was not rolled
\* back and a rolled-back one was never committed; Rollback was called on
\* every exit that is not a committed success.
C6_ScopedTransaction ==
    /\ Cardinality(TerminalActions) <= 1
    /\ txState = "committed" => \A k \in CallsOf("Rollback") : ~calls[k].ok
    /\ txState = "rolledback" => CallsOf("Commit") = {}
    /\ (Exited /\ BeginSucceeded) =>
          /\ Cardinality(TerminalActions) = 1
          /\ txState \in {"committed", "commitFailed", "rolledback"}
          /\ txState # "committed" => CallsOf("Rollback") # {}
    /\ (Exited /\ ~BeginSucceeded) => txState = "none"

\* The no-op path: no Commit, and the unused transaction rolled back.
C6_Witness ==
    /\ Returned
    /\ err = Success
    /\ BeginSucceeded
    /\ CallsOf("Commit") = {}
    /\ txState = "rolledback"

\* C7: a call returns an error exactly when one of its steps failed; the
\* error names the stage (and, for an execution, the index) of that step; the
\* step that failed is the only one that failed, nothing but the deferred
\* Rollback follows it, and no step is made twice.
C7_ErrorByStage ==
    Returned =>
        /\ err # Success <=> FailedSteps # {}
        /\ \A k \in FailedSteps :
              /\ err = StageError(calls[k])
              /\ FailedSteps = {k}
              /\ \A j \in (k + 1)..Len(calls) : calls[j].op = "Rollback"
        /\ \A j, k \in 1..Len(calls) :
              (calls[j].op = calls[k].op /\ calls[j].index = calls[k].index) => j = k

\* The Commit failed and the call returned the commit error.
C7_Witness ==
    /\ Returned
    /\ err = [stage |-> "commit", index |-> 0 - 1]
    /\ \E k \in CallsOf("Commit") : ~calls[k].ok

\* C10: no step of any call, with any schema and any failure, lowers the
\* committed user_version.
C10_CounterMonotone == [][user_version' >= user_version]_vars

\* A later call, with a schema of fewer versions than user_version, returned
\* after an earlier call had advanced user_version.
C10_Witness ==
    /\ nCalls >= 2
    /\ Returned
    /\ Len(dbApplied) > 0
    /\ Len(Versions(s)) < user_version

(***************************************************************************)
(* Versions: C8 and C9.                                                    *)
(***************************************************************************)
NoPartContainsMagic == \A k \in 1..Len(parts) : ~Contains(parts[k], s.magic)

MagicHasNewline == \E k \in 1..Len(s.magic) : s.magic[k] = NL

\* C8 as stated: for every non-empty delimiter and every sequence of one or
\* more strings that do not contain it, Versions of the join is the sequence.
C8_Original ==
    (pc = "splitDone" /\ Len(s.magic) > 0 /\ Len(parts) >= 1 /\ NoPartContainsMagic) =>
        versions = parts

\* C8, amended: for every non-empty delimiter without a newline and every
\* sequence of one or more strings that do not contain it, Versions of the
\* join is the sequence.
C8_SplitCount ==
    (/\ pc = "splitDone"
     /\ Len(s.magic) > 0
     /\ ~MagicHasNewline
     /\ Len(parts) >= 1
     /\ NoPartContainsMagic) =>
        versions = parts

\* Three parts, one holding a fragment of the delimiter, came back unchanged.
C8_Witness ==
    /\ pc = "splitDone"
    /\ s.magic = <<"a", "a">>
    /\ Len(parts) = 3
    /\ NoPartContainsMagic
    /\ \E k \in 1..3 : Contains(parts[k], <<"a">>)
    /\ versions = parts

\* C9: a schema in which "\n"+magic+"\n" does not occur comes back whole, as
\* the only version.
C9_SplitIdentity ==
    (pc = "splitDone" /\ ~Contains(s.schema, Separator(s.magic))) =>
        versions = <<s.schema>>

\* A schema that holds the delimiter, but not on a line of its own.
C9_Witness ==
    /\ pc = "splitDone"
    /\ Len(s.magic) > 0
    /\ Contains(s.schema, s.magic)
    /\ Contains(s.schema, <<NL>>)
    /\ ~Contains(s.schema, Separator(s.magic))
    /\ versions = <<s.schema>>

(***************************************************************************)
(* Migrate: C11 to C14.                                                    *)
(***************************************************************************)
QuerySucceeded == \E k \in CallsOf("Query") : calls[k].ok

\* C11 as stated: after every successful call user_version is at most
\* len(versions) of the schema of that call.
C11_Original ==
    (Returned /\ err = Success) => user_version <= Len(Versions(s))

\* C11, amended: after every successful call that started with user_version
\* at most len(versions), user_version is at most len(versions).
C11_CounterBound ==
    (Returned /\ err = Success /\ pre.user_version <= Len(Versions(s))) =>
        user_version <= Len(Versions(s))

\* A fresh database was migrated to a schema of two versions.
C11_Witness ==
    /\ Returned
    /\ err = Success
    /\ pre.user_version = 0
    /\ Len(Versions(s)) = 2
    /\ user_version = 2

\* C12: once user_version has been read as v >= len(versions), the call makes
\* no execution, no write of user_version and no Commit; it returns nil with
\* nothing but the deferred Rollback after the read, the transaction rolled
\* back and the committed state as it was.
C12_NoOpPath ==
    (QuerySucceeded /\ pc # "compare" /\ v >= Len(Versions(s))) =>
        /\ pc \in {"deferred", "returned"}
        /\ err = Success
        /\ CallsOf("Exec") = {}
        /\ CallsOf("SetVersion") = {}
        /\ CallsOf("Commit") = {}
        /\ Committed = pre
        /\ Returned =>
              /\ txState = "rolledback"
              /\ Len(calls) = 3
              /\ calls[3] = [op |-> "Rollback", index |-> 0 - 1, ok |-> TRUE]

\* user_version was above len(versions) and the call returned nil.
C12_Witness ==
    /\ Returned
    /\ QuerySucceeded
    /\ v > Len(Versions(s))
    /\ err = Success
    /\ txState = "rolledback"

\* C13: user_version is read once, before every execution; it is written at
\* most once, after the executions of all pending versions v .. n-1 have
\* succeeded, with the value n = len(versions), while the transaction is
\* still open; a Commit is made only after the write has succeeded.
C13_CounterStepOrder ==
    /\ Cardinality(CallsOf("Query")) <= 1
    /\ (Exited /\ BeginSucceeded) => Cardinality(CallsOf("Query")) = 1
    /\ \A k \in CallsOf("Exec") : \E q \in CallsOf("Query") : q < k /\ calls[q].ok
    /\ Cardinality(CallsOf("SetVersion")) <= 1
    /\ \A w \in CallsOf("SetVersion") :
          /\ ExecIndices = [k \in 1..(Len(Versions(s)) - v) |-> v + k - 1]
          /\ \A k \in CallsOf("Exec") : k < w /\ calls[k].ok
          /\ \A k \in TerminalActions : k > w
          /\ (calls[w].ok /\ pc = "commit") =>
                (txState = "open" /\ txVersion = Len(Versions(s)))
    /\ \A c \in CallsOf("Commit") :
          /\ \E w \in CallsOf("SetVersion") : w < c /\ calls[w].ok
          /\ calls[c].ok => user_version = Len(Versions(s))

\* The write has succeeded after a resumed run and the Commit is still to come.
C13_Witness ==
    /\ pc = "commit"
    /\ v = 1
    /\ txVersion = 2
    /\ user_version = 1

\* C14: when Begin fails it is the only database call of the run: the call
\* has returned the begin error, with no read, no execution, no write, no
\* Commit and no Rollback, no transaction, and the committed state as it was.
C14_BeginFailure ==
    \A k \in CallsOf("Begin") :
        ~calls[k].ok =>
            /\ calls = <<[op |-> "Begin", index |-> 0 - 1, ok |-> FALSE]>>
            /\ Returned
            /\ err = [stage |-> "begin", index |-> 0 - 1]
            /\ txState = "none"
            /\ Committed = pre

\* Begin failed on a database that an earlier call had migrated.
C14_Witness ==
    /\ Returned
    /\ err.stage = "begin"
    /\ nCalls >= 2
    /\ Len(dbApplied) > 0

(***************************************************************************)
(* Cancellation: C15.                                                      *)
(***************************************************************************)
\* The database calls that take ctx.
CtxOps == {"Query", "Exec", "SetVersion"}

\* C15 as stated, for a call with versions pending: once ctx is cancelled
\* while the loop, the write of user_version or the Commit is still to come,
\* nothing of the call is committed and the call does not end in success.
C15_Original ==
    [][(ctxDone /\ pc \in {"exec", "setVersion", "commit"}) =>
          /\ Committed' = pre
          /\ ~(pc' = "deferred" /\ err' = Success)]_vars

\* C15, amended: a database call that takes ctx (the read of user_version, an
\* execution, the write of user_version) and is made after the cancellation
\* fails; the call goes straight to its exit with the error of that stage,
\* and returns with the transaction rolled back and the committed state as
\* it was.  (Begin and Commit take no ctx.)
C15_Cancellation ==
    [][/\ (ctxDone /\ Len(calls') > Len(calls) /\ calls'[Len(calls')].op \in CtxOps) =>
             /\ ~calls'[Len(calls')].ok
             /\ pc' = "deferred"
             /\ err' = StageError(calls'[Len(calls')])
             /\ Committed' = pre
       /\ (/\ ctxDone
           /\ pc = "deferred"
           /\ pc' = "returned"
           /\ \E k \in FailedSteps : calls[k].op \in CtxOps) =>
             /\ txState' = "rolledback"
             /\ err' # Success
             /\ Committed' = pre]_vars

\* The context was cancelled, the write of user_version failed after an
\* execution had succeeded, and the call returned.
C15_Witness ==
    /\ Returned
    /\ ctxDone
    /\ err = [stage |-> "setVersion", index |-> 0 - 1]
    /\ \E k \in CallsOf("Exec") : calls[k].ok
    /\ txState = "rolledback"

(***************************************************************************)
(* A fresh database migrated with a growing schema: C16.                   *)
(***************************************************************************)
IsPrefix(a, b) == Len(a) <= Len(b) /\ SubSeq(b, 1, Len(a)) = a

\* A database that nothing has touched: user_version is 0.
FreshInit == Init /\ user_version = 0

\* A call whose versions extend the versions of the call before it.
GrowingMigrate(schema) ==
    /\ nCalls = 0 \/ IsPrefix(Versions(s), Versions(NewSchema(schema)))
    /\ Migrate(schema)

\* user_version is never negative here, so versions[i] is never out of range.
FreshNext ==
    \/ \E schema \in Sources : GrowingMigrate(schema)
    \/ Cancel
    \/ \E ok \in BOOLEAN : Begin(ok)
    \/ \E ok \in BOOLEAN : Query(ok)
    \/ Compare
    \/ \E ok, partial \in BOOLEAN : Exec(ok, partial)
    \/ \E ok \in BOOLEAN : SetVersion(ok)
    \/ \E ok \in BOOLEAN : Commit(ok)
    \/ Rollback

FreshSpec == FreshInit /\ [][FreshNext]_vars

\* C16: between calls the committed statements are those of the versions
\* 0, 1, ..., user_version - 1, once each and in this order, with the SQL the
\* schema of the latest call has at that index.
C16_AppliedSet ==
    pc \in {"idle", "returned"} =>
        /\ [k \in 1..Len(dbApplied) |-> dbApplied[k].index]
              = [k \in 1..user_version |-> k - 1]
        /\ nCalls > 0 =>
              \A k \in 1..Len(dbApplied) :
                  /\ k <= Len(Versions(s))
                  /\ dbApplied[k].sql = Versions(s)[k]

\* A second call, with a longer schema, has added version 1 to version 0.
C16_Witness ==
    /\ pc = "returned"
    /\ nCalls >= 2
    /\ pre.user_version = 1
    /\ Len(pre.applied) = 1
    /\ user_version = 2
    /\ Len(dbApplied) = 2

(***************************************************************************)
(* Index safety and the never empty version list: C17 and C19.             *)
(***************************************************************************)
\* C17: whatever user_version holds, the loop index stays within
\* 0 .. len(versions)-1, only versions with such an index are executed, and
\* the call does not end in a panic.
C17_IndexSafety ==
    /\ pc # "panicked"
    /\ err.stage # "panic"
    /\ pc = "exec" => (0 <= i /\ i < Len(versions))
    /\ \A k \in CallsOf("Exec") :
          0 <= calls[k].index /\ calls[k].index < Len(Versions(s))

\* C19: Versions returns at least one element, for the schema of every call
\* and for every body and delimiter of the split runs (the empty ones
\* included); so a call that reads user_version 0 goes on to execute version
\* 0 first, and when no step fails it commits a user_version of at least 1.
C19_NeverEmpty ==
    /\ Len(Versions(s)) >= 1
    /\ pc = "idle" =>
          \A body \in SplitStrings, magic \in SplitMagics :
              Len(Versions(NewSchemaWithMagic(body, magic))) >= 1
    /\ (pre.user_version = 0 /\ QuerySucceeded /\ pc # "compare") =>
          \/ pc = "exec" /\ i = 0 /\ CallsOf("Exec") = {}
          \/ /\ CallsOf("Exec") # {}
             /\ \A k \in CallsOf("Exec") :
                   (\A j \in CallsOf("Exec") : k <= j) => calls[k].index = 0
    /\ (pre.user_version = 0 /\ Returned /\ FailedSteps = {}) =>
          /\ err = Success
          /\ \E k \in CallsOf("Commit") : calls[k].ok
          /\ user_version >= 1

\* The empty schema on a database at user_version 0: one (empty) version was
\* executed and user_version 1 committed.
C19_Witness ==
    /\ Returned
    /\ s.schema = <<>>
    /\ pre.user_version = 0
    /\ CallsOf("Exec") # {}
    /\ err = Success
    /\ user_version = 1

(***************************************************************************)
(* Two concurrent calls of Migrate with the same schema: C18.              *)
(*                                                                         *)
(* Each caller runs the steps of Migrate on a transaction of its own.  The *)
(* engine lets one transaction at a time write and commit, and rejects a   *)
(* write of a transaction that read user_version before another            *)
(* transaction committed.                                                  *)
(***************************************************************************)
Procs == {"a", "b"}

\* The variables of the single call, which the concurrent runs leave alone.
callVars == <<txState, txVersion, txApplied, pc, v, versions, i, err, ctxDone,
              calls, prev, nCalls, parts>>

\* A caller about to call db.Begin().
NewCaller ==
    [pc |-> "begin", v |-> 0, i |-> 0, versions |-> <<>>, err |-> Nil,
     tx |-> "none", view |-> Committed, stale |-> FALSE]

\* The engine's rule for a write of caller p's transaction.
CanWrite(p) == writer \in {"none", p} /\ ~callers[p].stale

\* The write lock after caller p's transaction has ended.
Released(p) == IF writer = p THEN "none" ELSE writer

ConcInit ==
    /\ user_version \in StoredCounters
    /\ dbApplied = <<>>
    /\ \E schema \in Sources : s = NewSchema(schema)
    /\ pre = Committed
    /\ callers = [p \in Procs |-> NewCaller]
    /\ writer = "none"
    /\ txState = "none"
    /\ txVersion = 0
    /\ txApplied = <<>>
    /\ pc = "concurrent"
    /\ v = 0
    /\ versions = <<>>
    /\ i = 0
    /\ err = Nil
    /\ ctxDone = FALSE
    /\ calls = <<>>
    /\ prev = [s |-> NoSchema, err |-> Nil, pc |-> "idle"]
    /\ nCalls = 0
    /\ parts = <<>>

\* tx, err := db.Begin(); on success, defer tx.Rollback().
ConcBegin(p, ok) ==
    /\ callers[p].pc = "begin"
    /\ callers' = [callers EXCEPT ![p] =
          IF ok THEN [@ EXCEPT !.tx = "open", !.pc = "query"]
          ELSE [@ EXCEPT !.err = BeginError, !.pc = "returned"]]
    /\ UNCHANGED <<user_version, dbApplied, s, pre, writer, callVars>>

\* tx.QueryRowContext(ctx, "PRAGMA user_version").Scan(&v): the transaction
\* reads the committed state as it is now.
ConcQuery(p, ok) ==
    /\ callers[p].pc = "query"
    /\ callers' = [callers EXCEPT ![p] =
          IF ok THEN [@ EXCEPT !.v = user_version, !.view = Committed,
                               !.stale = FALSE, !.pc = "compare"]
          ELSE [@ EXCEPT !.err = QueryError, !.pc = "deferred"]]
    /\ UNCHANGED <<user_version, dbApplied, s, pre, writer, callVars>>

\* versions := s.Versions(); if v >= len(versions) { return nil }; i := v.
ConcCompare(p) ==
    /\ callers[p].pc = "compare"
    /\ callers' = [callers EXCEPT ![p] =
          IF @.v >= Len(Versions(s))
          THEN [@ EXCEPT !.versions = Versions(s), !.pc = "deferred"]
          ELSE [@ EXCEPT !.versions = Versions(s), !.i = LoopStart(callers[p].v),
                         !.pc = "exec"]]
    /\ UNCHANGED <<user_version, dbApplied, s, pre, writer, callVars>>

\* versions[i] with a negative i panics; the deferred Rollback still runs.
ConcOutOfRange(p) ==
    /\ callers[p].pc = "exec"
    /\ callers[p].i < 0
    /\ callers' = [callers EXCEPT ![p] = [@ EXCEPT !.err = IndexPanic, !.pc = "deferred"]]
    /\ UNCHANGED <<user_version, dbApplied, s, pre, writer, callVars>>

\* A plausible slip: db.ExecContext for tx.ExecContext, outside the transaction.
ConcExecOnDB(p, ok) ==
    /\ callers[p].pc = "exec"
    /\ callers[p].i >= 0
    /\ ok => writer \in {"none", p}
    /\ LET c == callers[p]
           stmt == Statement(c.i, c.versions[c.i + 1])
       IN  /\ callers' = [callers EXCEPT ![p] =
                 IF ok
                 THEN [@ EXCEPT !.i = c.i + 1,
                                !.pc = IF c.i + 1 < Len(c.versions)
                                       THEN "exec" ELSE "setVersion"]
                 ELSE [@ EXCEPT !.err = ApplyError(c.i), !.pc = "deferred"]]
           /\ dbApplied' = IF ok THEN Append(dbApplied, stmt) ELSE dbApplied
    /\ UNCHANGED <<user_version, s, pre, writer, callVars>>

\* _, err := tx.ExecContext(ctx, versions[i]), then i++ and the loop's test.
\* A write that succeeds takes the write lock for the transaction.
ConcExec(p, ok) ==
    /\ callers[p].pc = "exec"
    /\ callers[p].i >= 0
    /\ ok => CanWrite(p)
    /\ LET c == callers[p]
           stmt == Statement(c.i, c.versions[c.i + 1])
       IN  callers' = [callers EXCEPT ![p] =
               IF ok
               THEN [@ EXCEPT !.view.applied = Append(c.view.applied, stmt),
                              !.i = c.i + 1,
                              !.pc = IF c.i + 1 < Len(c.versions)
                                     THEN "exec" ELSE "setVersion"]
               ELSE [@ EXCEPT !.err = ApplyError(c.i), !.pc = "deferred"]]
    /\ writer' = IF ok THEN p ELSE writer
    /\ UNCHANGED <<user_version, dbApplied, s, pre, callVars>>

\* tx.ExecContext(ctx, "PRAGMA user_version = <len(versions)>")
ConcSetVersion(p, ok) ==
    /\ callers[p].pc = "setVersion"
    /\ ok => CanWrite(p)
    /\ callers' = [callers EXCEPT ![p] =
          IF ok
          THEN [@ EXCEPT !.view.user_version = Len(callers[p].versions),
                         !.pc = "commit"]
          ELSE [@ EXCEPT !.err = SetVersionError, !.pc = "deferred"]]
    /\ writer' = IF ok THEN p ELSE writer
    /\ UNCHANGED <<user_version, dbApplied, s, pre, callVars>>

\* tx.Commit(): on success the view becomes the committed state and what the
\* other transactions have read is stale; either way the write lock is free.
ConcCommit(p, ok) ==
    /\ callers[p].pc = "commit"
    /\ IF ok
       THEN /\ user_version' = callers[p].view.user_version
            /\ dbApplied' = callers[p].view.applied
            /\ callers' = [q \in Procs |->
                  IF q = p
                  THEN [callers[q] EXCEPT !.tx = "committed", !.pc = "deferred"]
                  ELSE [callers[q] EXCEPT !.stale = TRUE]]
       ELSE /\ callers' = [callers EXCEPT ![p] =
                  [@ EXCEPT !.tx = "commitFailed", !.err = CommitError,
                            !.pc = "deferred"]]
            /\ UNCHANGED <<user_version, dbApplied>>
    /\ writer' = Released(p)
    /\ UNCHANGED <<s, pre, callVars>>

\* The deferred tx.Rollback().
ConcRollback(p) ==
    /\ callers[p].pc = "deferred"
    /\ callers' = [callers EXCEPT ![p] =
          [@ EXCEPT !.tx = IF @ = "open" THEN "rolledback" ELSE @,
                    !.pc = IF callers[p].err = IndexPanic
                           THEN "panicked" ELSE "returned"]]
    /\ writer' = IF callers[p].tx = "open" THEN Released(p) ELSE writer
    /\ UNCHANGED <<user_version, dbApplied, s, pre, callVars>>

ConcNext ==
    \E p \in Procs :
        \/ \E ok \in BOOLEAN : ConcBegin(p, ok)
        \/ \E ok \in BOOLEAN : ConcQuery(p, ok)
        \/ ConcCompare(p)
        \/ ConcOutOfRange(p)
        \/ \E ok \in BOOLEAN : ConcExec(p, ok)
        \/ \E ok \in BOOLEAN : ConcSetVersion(p, ok)
        \/ \E ok \in BOOLEAN : ConcCommit(p, ok)
        \/ ConcRollback(p)

ConcSpec == ConcInit /\ [][ConcNext]_vars

BothExited == \A p \in Procs : callers[p].pc \in {"returned", "panicked"}

SomeSucceeded ==
    \E p \in Procs : callers[p].pc = "returned" /\ callers[p].err = Success

NoVersionCommittedTwice ==
    \A j, k \in 1..Len(dbApplied) :
        dbApplied[j].index = dbApplied[k].index => j = k

AtMostOneCommitted ==
    Cardinality({p \in Procs : callers[p].tx = "committed"}) <= 1

\* C18 as stated: no version is committed twice, at most one of the two
\* calls commits, and when both calls have ended and one of them returned
\* nil, user_version is len(versions).
C18_Original ==
    /\ NoVersionCommittedTwice
    /\ AtMostOneCommitted
    /\ (BothExited /\ SomeSucceeded) => user_version = Len(Versions(s))

\* C18, amended: the same, with user_version = len(versions) claimed only
\* when user_version did not exceed len(versions) before the two calls (a
\* larger one is left as it was).
C18_ConcurrentCallers ==
    /\ NoVersionCommittedTwice
    /\ AtMostOneCommitted
    /\ (BothExited /\ SomeSucceeded) =>
          user_version = IF pre.user_version <= Len(Versions(s))
                         THEN Len(Versions(s)) ELSE pre.user_version
    /\ \A p \in Procs :
          callers[p].tx = "committed" =>
              dbApplied = pre.applied \o PendingFrom(pre.user_version, Versions(s))

\* Both callers read user_version 0; one committed both versions, the write
\* of the other was rejected and it returned the apply error.
C18_Witness ==
    /\ BothExited
    /\ callers["a"].v = 0
    /\ callers["b"].v = 0
    /\ callers["a"].tx = "committed"
    /\ callers["b"].tx = "rolledback"
    /\ callers["b"].err = [stage |-> "apply", index |-> 0]
    /\ user_version = 2

====
